---- MODULE Spec2Model ----
(***************************************************************************)
(* A model of app.py: the Streamlit page that turns an informal            *)
(* mathematical statement into a Lean theorem statement through AWS        *)
(* Bedrock.  Streamlit runs main() from top to bottom once per user event; *)
(* every action below is one such script run.                              *)
(*                                                                         *)
(* Text is a sequence of pieces.  A piece is one character ("a", " ",      *)
(* "\n", the double quote), a code point written "U+XXXX", or a chunk of   *)
(* a literal of the source that holds no character json escapes.           *)
(***************************************************************************)
EXTENDS Integers, Sequences, FiniteSets, TLC

\* Longest statement typed.
MaxLen == 2
\* Longest generation returned, but for ExtraGenerations.
MaxGenLen == 3
\* Most calls of bedrock_llama_response in one behaviour.
MaxRuns == 2

VARIABLES env, initFails, text_area, page, last, convertCalls, nRequests

vars == <<env, initFails, text_area, page, last, convertCalls, nRequests>>

----------------------------------------------------------------------------
\* Python values

None == [t |-> "None", s |-> <<>>]

Str(s) == [t |-> "str", s |-> s]

\* Python truth of None and of a str: None and "" are falsy.
Truthy(v) == v.t = "str" /\ v.s # <<>>

\* str.isspace for one character.
IsSpace(c) == c \in {" ", "\n", "\t", "\r"}

RECURSIVE lstrip(_)
lstrip(s) == IF s # <<>> /\ IsSpace(Head(s)) THEN lstrip(Tail(s)) ELSE s

RECURSIVE rstrip(_)
rstrip(s) ==
    IF s # <<>> /\ IsSpace(s[Len(s)]) THEN rstrip(SubSeq(s, 1, Len(s) - 1)) ELSE s

\* A strip that forgets the right end.
strip_left_only(s) == lstrip(s)

\* str.strip(): line 68.
strip(s) == rstrip(lstrip(s))

----------------------------------------------------------------------------
\* Inputs

Chars == {" ", "a", "\""}

GenChars == {" ", "a"}

RECURSIVE StrsOfLen(_, _)
StrsOfLen(n, alphabet) ==
    IF n = 0 THEN {<<>>}
    ELSE {Append(s, c) : s \in StrsOfLen(n - 1, alphabet), c \in alphabet}

\* What the user can type into the text area.
Strs == UNION {StrsOfLen(n, Chars) : n \in 0..MaxLen}

\* Generations with the other whitespace characters and a quote.
ExtraGenerations == {<<"\n", "\t">>, <<"\n", "a", "\"", "\r">>}

\* The strings the provider can return as the generation.
Generations == UNION {StrsOfLen(n, GenChars) : n \in 0..MaxGenLen} \cup ExtraGenerations

\* os.getenv: None when the variable is not set, else its value.
EnvValues == {None, Str(<<>>), Str(<<"a">>)}

Environments ==
    [AWS_ACCESS_KEY_ID : EnvValues, AWS_SECRET_ACCESS_KEY : EnvValues,
     AWS_REGION : EnvValues, BEDROCK_MODEL_ID : EnvValues]

ErrorCodes == {<<"ThrottlingException">>, <<"ValidationException">>}

ErrorMessages == {<<"rate exceeded">>, <<"a", " ">>}

NoOutcome == [k |-> "none", has |-> FALSE, gen |-> None, code |-> <<>>, msg |-> <<>>]

\* What client.invoke_model and the reading of its response can do: a JSON
\* object with or without a generation (null or a string), a ClientError,
\* or any other exception.
Outcomes ==
    {[k |-> "ok", has |-> FALSE, gen |-> None, code |-> <<>>, msg |-> <<>>]}
    \cup {[k |-> "ok", has |-> TRUE, gen |-> g, code |-> <<>>, msg |-> <<>>] :
            g \in {None} \cup {Str(s) : s \in Generations}}
    \cup {[k |-> "ClientError", has |-> FALSE, gen |-> None, code |-> c, msg |-> m] :
            c \in ErrorCodes, m \in ErrorMessages}
    \cup {[k |-> "Exception", has |-> FALSE, gen |-> None, code |-> <<>>, msg |-> m] :
            m \in ErrorMessages}

----------------------------------------------------------------------------
\* Literals of the source

CredentialsError ==
    <<"AWS credentials or region not found. Please set them in your environment or .env file.">>

\* str(e) of the exception boto3 raises.
InitExcText == <<"str(e)">>

InitError == <<"Failed to initialize AWS Bedrock client: ">> \o InitExcText

ModelIdError ==
    <<"BEDROCK_MODEL_ID not found. Please set it in your environment or .env file.">>

\* The provider's message left out of the banner.
ClientErrorMessage_code_only(error_code, error_message) ==
    <<"AWS Bedrock API error: ">> \o error_code

ClientErrorMessage(error_code, error_message) ==
    <<"AWS Bedrock API error: ">> \o error_code \o <<" - ">> \o error_message

ExceptionMessage(e) ==
    <<"An error occurred while calling the AWS Bedrock API: ">> \o e

EmptyWarning == <<"Please enter a mathematical statement to convert.">>

Sentinel == <<"Conversion failed.">>

PromptHead ==
    << "As an expert in mathematical theorem formalization, your task is to convert the given informal mathematical statement into a formal theorem statement in Lean. Follow these guidelines:",
       "\n", "\n",
       "1. Use proper Lean syntax and notation.", "\n",
       "2. Include appropriate type declarations for variables.", "\n",
       "3. Use Unicode characters for mathematical symbols where applicable.", "\n",
       "4. Structure the theorem statement logically, using implications (",
       "U+2192", ") or biconditionals (", "U+2194", ") as needed.", "\n",
       "5. If the statement involves multiple conditions or parts, use appropriate logical connectives (",
       "U+2227", ", ", "U+2228", ", ", "U+00AC", ").", "\n",
       "6. For statements about sets or types, use appropriate quantifiers (",
       "U+2200", ", ", "U+2203", ") and set notation.", "\n",
       "7. If the statement involves specific mathematical concepts (e.g., primality, divisibility), use the corresponding Lean functions or definitions.",
       "\n", "\n",
       "Informal statement: " >>

PromptTrailer == <<"\n", "\n", "Formal Lean theorem:">>

\* The statement trimmed before it is substituted.
prompt_trimmed(informal_statement) ==
    PromptHead \o rstrip(lstrip(informal_statement)) \o PromptTrailer

\* The f-string of lines 38-50.
prompt(informal_statement) == PromptHead \o informal_statement \o PromptTrailer

samples ==
    << <<"The golden ratio is irrational.">>,
       <<"There are no perfect squares strictly between m", "U+00B2", " and (m+1)", "U+00B2">>,
       <<"The only numbers with empty prime factorization are 0 and 1">>,
       <<"Odd Bernoulli numbers (greater than 1) are zero.">>,
       <<"A natural number is odd iff it has residue 1 or 3 mod 4">> >>

----------------------------------------------------------------------------
\* json

NonAscii == {"U+2192", "U+2194", "U+2227", "U+2228", "U+00AC", "U+2200", "U+2203", "U+00B2"}

\* The four hex digits json.dumps writes after \u for a code point.
Hex(c) ==
    CASE c = "U+2192" -> "u2192" [] c = "U+2194" -> "u2194"
      [] c = "U+2227" -> "u2227" [] c = "U+2228" -> "u2228"
      [] c = "U+00AC" -> "u00ac" [] c = "U+2200" -> "u2200"
      [] c = "U+2203" -> "u2203" [] c = "U+00B2" -> "u00b2"

\* json.dumps of one character of a string (ensure_ascii is on).
EscapeChar(c) ==
    CASE c = "\"" -> <<"\\", "\"">>
      [] c = "\\" -> <<"\\", "\\">>
      [] c = "\n" -> <<"\\", "n">>
      [] c = "\t" -> <<"\\", "t">>
      [] c = "\r" -> <<"\\", "r">>
      [] c \in NonAscii -> <<"\\", Hex(c)>>
      [] OTHER -> <<c>>

RECURSIVE JsonEscape(_)
JsonEscape(s) == IF s = <<>> THEN <<>> ELSE EscapeChar(Head(s)) \o JsonEscape(Tail(s))

\* The request body of lines 52-57, as the text of each field on the wire.
json_dumps(p) ==
    [prompt |-> JsonEscape(p), max_gen_len |-> 300, temperature |-> "0.2", top_p |-> "0.95"]

----------------------------------------------------------------------------
\* The script

\* The region left out of the all([...]) of line 16.
initialize_bedrock_client_no_region(e, fails) ==
    IF ~(Truthy(e.AWS_ACCESS_KEY_ID) /\ Truthy(e.AWS_SECRET_ACCESS_KEY))
    THEN [halted |-> TRUE, errors |-> <<CredentialsError>>]
    ELSE IF fails
    THEN [halted |-> TRUE, errors |-> <<InitError>>]
    ELSE [halted |-> FALSE, errors |-> <<>>]

initialize_bedrock_client(e, fails) ==
    IF ~(Truthy(e.AWS_ACCESS_KEY_ID) /\ Truthy(e.AWS_SECRET_ACCESS_KEY) /\ Truthy(e.AWS_REGION))
    THEN [halted |-> TRUE, errors |-> <<CredentialsError>>]
    ELSE IF fails
    THEN [halted |-> TRUE, errors |-> <<InitError>>]
    ELSE [halted |-> FALSE, errors |-> <<>>]

\* response_body.get('generation'): None when the key is missing.
get_generation(o) == IF o.has THEN o.gen ELSE None

\* Line 68.
formal_result(formal_statement) ==
    IF Truthy(formal_statement) THEN Str(strip(formal_statement.s)) ELSE Str(Sentinel)

\* A second invoke_model after a ClientError.
call_model_retry(informal_statement, o) ==
    LET body == json_dumps(prompt(informal_statement)) IN
    CASE o.k = "ok" ->
           [halted |-> FALSE, errors |-> <<>>, ret |-> formal_result(get_generation(o)),
            sent |-> <<body>>]
      [] o.k = "ClientError" ->
           [halted |-> FALSE, errors |-> <<ClientErrorMessage(o.code, o.msg)>>,
            ret |-> None, sent |-> <<body, body>>]
      [] OTHER ->
           [halted |-> FALSE, errors |-> <<ExceptionMessage(o.msg)>>,
            ret |-> None, sent |-> <<body>>]

\* The try block of lines 51-75, entered with model_id set.
call_model(informal_statement, o) ==
    LET body == json_dumps(prompt(informal_statement)) IN
    CASE o.k = "ok" ->
           [halted |-> FALSE, errors |-> <<>>, ret |-> formal_result(get_generation(o)),
            sent |-> <<body>>]
      [] o.k = "ClientError" ->
           [halted |-> FALSE, errors |-> <<ClientErrorMessage(o.code, o.msg)>>,
            ret |-> None, sent |-> <<body>>]
      [] OTHER ->
           [halted |-> FALSE, errors |-> <<ExceptionMessage(o.msg)>>,
            ret |-> None, sent |-> <<body>>]

\* The check of model_id (lines 34-36) left out.
bedrock_llama_response_unchecked(e, informal_statement, o) ==
    call_model(informal_statement, o)

bedrock_llama_response(e, informal_statement, o) ==
    IF ~Truthy(e.BEDROCK_MODEL_ID)
    THEN [halted |-> TRUE, errors |-> <<ModelIdError>>, ret |-> None, sent |-> <<>>]
    ELSE call_model(informal_statement, o)

\* The test of line 90 left out.
convert_pressed_unchecked(e, informal_statement, o) ==
    LET r == bedrock_llama_response(e, informal_statement, o) IN
    [halted |-> r.halted, errors |-> r.errors, warnings |-> <<>>,
     code |-> IF ~r.halted /\ Truthy(r.ret) THEN r.ret ELSE None,
     invoked |-> TRUE, ret |-> r.ret, sent |-> r.sent]

\* Lines 89-97 with the Convert button pressed.
convert_pressed(e, informal_statement, o) ==
    IF informal_statement # <<>>
    THEN LET r == bedrock_llama_response(e, informal_statement, o) IN
         [halted |-> r.halted, errors |-> r.errors, warnings |-> <<>>,
          code |-> IF ~r.halted /\ Truthy(r.ret) THEN r.ret ELSE None,
          invoked |-> TRUE, ret |-> r.ret, sent |-> r.sent]
    ELSE [halted |-> FALSE, errors |-> <<>>, warnings |-> <<EmptyWarning>>,
          code |-> None, invoked |-> FALSE, ret |-> None, sent |-> <<>>]

not_pressed ==
    [halted |-> FALSE, errors |-> <<>>, warnings |-> <<>>, code |-> None,
     invoked |-> FALSE, ret |-> None, sent |-> <<>>]

TryButtons == {"Try1", "Try2", "Try3", "Try4", "Try5"}

\* Lines 99-110: the sample buttons, and the text area of the one pressed (0: none).
sample_section(try) ==
    [widgets |-> TryButtons, sample_area |-> IF try \in 1..Len(samples) THEN try ELSE 0]

\* One run of main(): convert says that the Convert button was pressed, try is the
\* index of the sample button pressed (0: none).
main(e, fails, informal_statement, convert, try, o) ==
    LET c == initialize_bedrock_client(e, fails) IN
    IF c.halted
    THEN [page |-> [halted |-> "startup", errors |-> c.errors, warnings |-> <<>>,
                    code |-> None, widgets |-> {}, sample_area |-> 0],
          invoked |-> FALSE, ret |-> None, sent |-> <<>>]
    ELSE LET b == IF convert
                  THEN convert_pressed(e, informal_statement, o) ELSE not_pressed
             s == sample_section(try)
         IN  IF b.halted
             THEN [page |-> [halted |-> "convert", errors |-> b.errors, warnings |-> b.warnings,
                             code |-> None, widgets |-> {"text_area", "Convert"},
                             sample_area |-> 0],
                   invoked |-> b.invoked, ret |-> b.ret, sent |-> b.sent]
             ELSE [page |-> [halted |-> "no", errors |-> b.errors, warnings |-> b.warnings,
                             code |-> b.code,
                             widgets |-> {"text_area", "Convert"} \cup s.widgets,
                             sample_area |-> s.sample_area],
                   invoked |-> b.invoked, ret |-> b.ret, sent |-> b.sent]

----------------------------------------------------------------------------
\* The state machine

BlankPage ==
    [halted |-> "no", errors |-> <<>>, warnings |-> <<>>, code |-> None,
     widgets |-> {}, sample_area |-> 0]

NoRun ==
    [event |-> "init", sample |-> 0, statement |-> <<>>, invoked |-> FALSE, ret |-> None,
     sent |-> <<>>, outcome |-> NoOutcome]

\* The process has started and load_dotenv has run; no browser has connected.
Init ==
    /\ env \in Environments
    /\ initFails \in BOOLEAN
    /\ text_area = <<>>
    /\ page = BlankPage
    /\ last = NoRun
    /\ convertCalls = 0
    /\ nRequests = 0

\* The script runs with the widget state given, and the browser shows what it drew.
Run(event, statement, try, o) ==
    LET r == main(env, initFails, statement, event = "Convert", try, o) IN
    /\ page' = r.page
    /\ last' = [event |-> event, sample |-> try, statement |-> statement, invoked |-> r.invoked,
                ret |-> r.ret, sent |-> r.sent,
                outcome |-> IF r.sent # <<>> THEN o ELSE NoOutcome]
    /\ convertCalls' = convertCalls + (IF r.invoked THEN 1 ELSE 0)
    /\ nRequests' = nRequests + Len(r.sent)
    /\ UNCHANGED <<env, initFails>>

\* A browser opens (or reloads) the page: a new session, an empty text area.
Load ==
    /\ text_area' = <<>>
    /\ Run("load", <<>>, 0, NoOutcome)

\* The user edits the statement; Streamlit reruns the script with no button pressed.
EditStatement ==
    /\ "text_area" \in page.widgets
    /\ \E s \in Strs :
        /\ s # text_area
        /\ text_area' = s
        /\ Run("edit", s, 0, NoOutcome)

PressConvert ==
    /\ "Convert" \in page.widgets
    /\ convertCalls < MaxRuns
    /\ UNCHANGED text_area
    /\ \E o \in Outcomes : Run("Convert", text_area, 0, o)

PressTry ==
    /\ \E i \in 1..Len(samples) :
        /\ TryButtons \subseteq page.widgets
        /\ UNCHANGED text_area
        /\ Run("Try", text_area, i, NoOutcome)

Next == Load \/ EditStatement \/ PressConvert \/ PressTry

Spec == Init /\ [][Next]_vars

----------------------------------------------------------------------------
\* What the properties speak of

ConfigKeys == {"AWS_ACCESS_KEY_ID", "AWS_SECRET_ACCESS_KEY", "AWS_REGION", "BEDROCK_MODEL_ID"}

AwsKeys == ConfigKeys \ {"BEDROCK_MODEL_ID"}

ConfigFull == \A k \in ConfigKeys : Truthy(env[k])

AwsPresent == \A k \in AwsKeys : Truthy(env[k])

\* Just k is missing (not set, or set to the empty string).
OnlyMissing(k) == \A j \in ConfigKeys : Truthy(env[j]) <=> j # k

Ran == last.event # "init"

\* sub occurs in s.
Contains(s, sub) ==
    \E i \in 0..(Len(s) - Len(sub)) : SubSeq(s, i + 1, i + Len(sub)) = sub

AllSpace(s) == \A i \in 1..Len(s) : IsSpace(s[i])

\* The provider's reading of one escape of a JSON string.
UnescapeChar(x) ==
    CASE x = "n" -> "\n" [] x = "t" -> "\t" [] x = "r" -> "\r"
      [] x = "u2192" -> "U+2192" [] x = "u2194" -> "U+2194"
      [] x = "u2227" -> "U+2227" [] x = "u2228" -> "U+2228"
      [] x = "u00ac" -> "U+00AC" [] x = "u2200" -> "U+2200"
      [] x = "u2203" -> "U+2203" [] x = "u00b2" -> "U+00B2"
      [] OTHER -> x

\* The provider's reading of a JSON string off the wire; a bare quote or control
\* character is no JSON.
RECURSIVE JsonUnescape(_)
JsonUnescape(w) ==
    IF w = <<>> THEN <<>>
    ELSE IF Head(w) = "\\" /\ Len(w) >= 2
    THEN <<UnescapeChar(w[2])>> \o JsonUnescape(SubSeq(w, 3, Len(w)))
    ELSE IF Head(w) \in {"\\", "\"", "\n", "\t", "\r"} \cup NonAscii
    THEN <<"invalid JSON">>
    ELSE <<Head(w)>> \o JsonUnescape(Tail(w))

\* The run sent a request with fields as the claim gives them, the prompt ending in trailer.
RequestIs(trailer) ==
    /\ Len(last.sent) = 1
    /\ JsonUnescape(last.sent[1].prompt) = PromptHead \o last.statement \o trailer
    /\ last.sent[1].max_gen_len = 300
    /\ last.sent[1].temperature = "0.2"
    /\ last.sent[1].top_p = "0.95"

----------------------------------------------------------------------------
C3_EmptyStatementWarns ==
    (last.event = "Convert" /\ last.statement = <<>>) =>
        /\ ~last.invoked
        /\ last.sent = <<>>
        /\ page.warnings = <<EmptyWarning>>
        /\ page.code = None
        /\ page.errors = <<>>

C3_Witness ==
    /\ ConfigFull
    /\ last.event = "Convert"
    /\ last.statement = <<>>
    /\ page.warnings = <<EmptyWarning>>
    /\ nRequests = convertCalls
    /\ convertCalls > 0

\* C4: a response whose generation is missing, null, empty or all whitespace makes
\* convert return the sentinel "Conversion failed." and report no error.
C4_SentinelForBlank ==
    (last.outcome.k = "ok" /\ AllSpace(get_generation(last.outcome).s)) =>
        /\ last.ret = Str(Sentinel)
        /\ page.errors = <<>>

\* C5: a generation g with a character that is no whitespace makes convert return
\* g without its leading and trailing whitespace, the rest untouched, and the
\* result area shows just that string.
C5_TrimmedGenerationShown ==
    (last.outcome.k = "ok" /\ ~AllSpace(get_generation(last.outcome).s)) =>
        LET g == get_generation(last.outcome).s IN
        /\ last.ret.t = "str"
        /\ \E i \in 1..Len(g) : \E j \in i..Len(g) :
              /\ ~IsSpace(g[i])
              /\ ~IsSpace(g[j])
              /\ AllSpace(SubSeq(g, 1, i - 1))
              /\ AllSpace(SubSeq(g, j + 1, Len(g)))
              /\ last.ret.s = SubSeq(g, i, j)
        /\ page.code = last.ret
        /\ page.errors = <<>>
        /\ page.halted = "no"

C5_Witness ==
    /\ last.outcome.k = "ok"
    /\ last.outcome.gen = Str(<<" ", "a", " ">>)
    /\ page.code = Str(<<"a">>)

\* C6: a ClientError with code c and message m, and any other exception with
\* message m, is caught in convert: convert returns None, one error banner holds
\* c and m (or m), no result is shown, the script runs on to its end, and the
\* page it leaves holds the text area and the Convert button, which is all that
\* a further submission needs.
C6_FailuresCaught ==
    (last.outcome.k \in {"ClientError", "Exception"}) =>
        /\ last.ret = None
        /\ page.code = None
        /\ Len(page.errors) = 1
        /\ Contains(page.errors[1], last.outcome.msg)
        /\ last.outcome.k = "ClientError" =>
              /\ Contains(page.errors[1], last.outcome.code)
              /\ Head(page.errors[1]) = "AWS Bedrock API error: "
        /\ last.outcome.k = "Exception" =>
              page.errors[1] =
                  <<"An error occurred while calling the AWS Bedrock API: ">>
                      \o last.outcome.msg
        /\ page.halted = "no"
        /\ page.widgets = {"text_area", "Convert"} \cup TryButtons

C6_Witness ==
    /\ last.outcome.k = "ClientError"
    /\ last.outcome.code = <<"ThrottlingException">>
    /\ last.outcome.msg = <<"rate exceeded">>
    /\ last.ret = None
    /\ convertCalls < MaxRuns
    /\ ENABLED PressConvert

\* C7: every invocation of convert ends either with a result returned and shown
\* and no error, or with an error shown and no result; never both, never neither.
C7_ExactlyOneOutcome ==
    last.invoked =>
        \/ Truthy(last.ret) /\ page.code = last.ret /\ page.errors = <<>>
        \/ page.errors # <<>> /\ page.code = None

C9_SpecTrailer ==
    last.sent # <<>> => RequestIs(<<"\n", "\n", "Formal theorem:">>)

\* C9 amended: the same, with the trailer the code writes: a blank line and
\* "Formal Lean theorem:".
C9_PromptVerbatim ==
    last.sent # <<>> => RequestIs(<<"\n", "\n", "Formal Lean theorem:">>)

C9_Witness ==
    /\ last.sent # <<>>
    /\ last.statement = <<" ", "\"">>
    /\ Contains(last.sent[1].prompt, <<" ", "\\", "\"", "\\", "n">>)

\* C10: pressing the button of a sample submits that sample: convert is invoked
\* with it and a request is sent.
C10_SampleSubmitted ==
    last.event = "Try" =>
        /\ last.invoked
        /\ last.statement = samples[last.sample]
        /\ last.sent # <<>>

====
